---- MODULE Spec2Model ----
(***************************************************************************)
(* Black-Scholes pricing engine, implied-volatility solver and trading     *)
(* signal of src/black_scholes_options.py.                                 *)
(*                                                                         *)
(* Python floats are modelled as fixed-point integers: a real x is the     *)
(* integer x * Scale (three decimal digits), so 0.30 is 300 and a spot of  *)
(* 100.0 is 100000.  Values the code divides by 100 before returning them  *)
(* (vega, rho) are carried in units of 1/PctScale so that the division     *)
(* loses no digits, as it loses none in floating point.  Products round    *)
(* to the nearest unit, quotients truncate toward zero.  Intermediate      *)
(* values stay below 2^31.                                                 *)
(* Dates are whole days; the wall clock is the variable now.               *)
(***************************************************************************)
EXTENDS Integers, Sequences, FiniteSets, TLC

\* ------------------------------------------------------------------------
\* Fixed-point arithmetic standing for Python float arithmetic
\* ------------------------------------------------------------------------

Scale == 10 ^ 3

PctScale == 100 * Scale

Abs(x) == IF x < 0 THEN -x ELSE x

Max(a, b) == IF a >= b THEN a ELSE b

Min(a, b) == IF a <= b THEN a ELSE b

\* Optional[float]: None is the empty tuple, a value v is <<v>>.
None == << >>

Some(v) == << v >>

\* a / b rounded to the nearest integer, halves away from zero (b # 0)
RDiv(a, b) ==
  IF (a >= 0) = (b > 0)
    THEN (2 * Abs(a) + Abs(b)) \div (2 * Abs(b))
    ELSE -((2 * Abs(a) + Abs(b)) \div (2 * Abs(b)))

RECURSIVE DivDigits(_, _, _, _)
DivDigits(q, r, c, k) ==
  IF k = 0 THEN q
  ELSE DivDigits(q * 10 + ((r * 10) \div c), (r * 10) % c, c, k - 1)

\* a * 10^k / b truncated toward zero, by long division (b # 0)
Quot(a, b, k) ==
  IF (a >= 0) = (b > 0)
    THEN DivDigits(Abs(a) \div Abs(b), Abs(a) % Abs(b), Abs(b), k)
    ELSE -DivDigits(Abs(a) \div Abs(b), Abs(a) % Abs(b), Abs(b), k)

\* float * float
FMul(a, b) == RDiv(a * b, Scale)

\* float / float (b # 0)
FDiv(a, b) == Quot(a, b, 3)

\* math.exp, Taylor series to the fifth power in Horner form (|x| <= 1.0)
Exp(x) ==
  Scale + FMul(x, Scale + FMul(RDiv(x, 2), Scale + FMul(RDiv(x, 3),
          Scale + FMul(RDiv(x, 4), Scale + RDiv(x, 5)))))

\* 2 * atanh(z) = 2z(1 + z^2/3 + z^4/5 + z^6/7 + z^8/9), z2 = z^2
Atanh2(z, z2) ==
  2 * FMul(z, Scale + FMul(z2, 333 + FMul(z2, 200 + FMul(z2,
           143 + RDiv(z2, 9)))))

AtanhOf(z) == Atanh2(z, FMul(z, z))

\* math.log for x > 0: 2 * atanh((x - 1) / (x + 1))
Ln(x) == AtanhOf(FDiv(x - Scale, x + Scale))

RECURSIVE ISqrt(_, _, _)
ISqrt(n, lo, hi) ==
  IF lo >= hi THEN lo
  ELSE IF ((lo + hi + 1) \div 2) * ((lo + hi + 1) \div 2) <= n
    THEN ISqrt(n, (lo + hi + 1) \div 2, hi)
    ELSE ISqrt(n, lo, ((lo + hi + 1) \div 2) - 1)

\* math.sqrt for x >= 0 (x <= 2000.0)
Sqrt(x) == ISqrt(x * Scale, 0, 45000)

\* scipy.stats.norm.cdf at 0.0, 0.1, ..., 4.0; linear in between, 1 beyond
CdfTable ==
  << 500, 540, 579, 618, 655, 691, 726, 758, 788, 816,
     841, 864, 885, 903, 919, 933, 945, 955, 964, 971,
     977, 982, 986, 989, 992, 994, 995, 997, 997, 998,
     999, 999, 999, 1000, 1000, 1000, 1000, 1000, 1000, 1000, 1000 >>

\* scipy.stats.norm.pdf at 0.0, 0.1, ..., 4.0; linear in between, 0 beyond
PdfTable ==
  << 399, 397, 391, 381, 368, 352, 333, 312, 290, 266,
     242, 218, 194, 171, 150, 130, 111, 94, 79, 66,
     54, 44, 35, 28, 22, 18, 14, 10, 8, 6,
     4, 3, 2, 2, 1, 1, 1, 0, 0, 0, 0 >>

Interpolate(table, a) ==
  IF a >= 4 * Scale THEN table[41]
  ELSE table[(a \div 100) + 1]
       + RDiv((table[(a \div 100) + 2] - table[(a \div 100) + 1])
              * (a % 100), 100)

norm_cdf(d) ==
  IF d >= 0 THEN Interpolate(CdfTable, d) ELSE Scale - Interpolate(CdfTable, -d)

norm_pdf(d) == Interpolate(PdfTable, Abs(d))

\* ------------------------------------------------------------------------
\* Outcomes of a call: a returned value or a raised exception
\* ------------------------------------------------------------------------

Return(v) == [kind |-> "return", value |-> v, error |-> "none"]

Raise(e) == [kind |-> "raise", value |-> None, error |-> e]

Raised(o) == o.kind = "raise"

NoOutcome == [kind |-> "none", value |-> None, error |-> "none"]

\* ------------------------------------------------------------------------
\* BlackScholesCalculator: the closed-form formulas
\* ------------------------------------------------------------------------

\* strike_price * math.exp(-risk_free_rate * time_to_expiry)
discounted_strike(strike_price, risk_free_rate, time_to_expiry) ==
  FMul(strike_price, Exp(-FMul(risk_free_rate, time_to_expiry)))

\* math.exp(-dividend_yield * time_to_expiry)
dividend_discount(dividend_yield, time_to_expiry) ==
  Exp(-FMul(dividend_yield, time_to_expiry))

\* num / den for d1; the quotient saturates at +-10.0, far outside the range
\* where norm.cdf and norm.pdf still vary
d1_quotient(num, den) ==
  IF Abs(num) * 100 >= Abs(den)
    THEN (IF (num >= 0) = (den > 0) THEN 10 * Scale ELSE -10 * Scale)
    ELSE Quot(num, den, 6)

d1_d2_terms(adjusted_spot, sqrt_t, volatility, d1) ==
  [adjusted_spot |-> adjusted_spot, sqrt_t |-> sqrt_t, d1 |-> d1,
   d2 |-> d1 - FMul(volatility, sqrt_t)]

d1_d2_from(adjusted_spot, sqrt_t, strike_price, time_to_expiry, risk_free_rate, volatility) ==
  IF strike_price = 0 THEN Raise("ZeroDivisionError")
  ELSE IF (adjusted_spot <= 0) = (strike_price > 0)
    THEN Raise("ValueError: math domain error")
  ELSE IF volatility * sqrt_t = 0 THEN Raise("ZeroDivisionError")
  ELSE Return(d1_d2_terms(adjusted_spot, sqrt_t, volatility,
         d1_quotient(Ln(FDiv(adjusted_spot, strike_price))
                     + FMul(risk_free_rate
                            + RDiv(FMul(volatility, volatility), 2),
                            time_to_expiry),
                     volatility * sqrt_t)))

\* The d1/d2 algebra every formula repeats for time_to_expiry > 0:
\* adjusted_spot, sqrt(time_to_expiry), d1 and d2, or the exception raised
d1_d2(spot_price, strike_price, time_to_expiry, risk_free_rate, volatility, dividend_yield) ==
  d1_d2_from(FMul(spot_price, dividend_discount(dividend_yield,
                                                time_to_expiry)),
             Sqrt(time_to_expiry), strike_price, time_to_expiry,
             risk_free_rate, volatility)

\* price_from with d1 where the put needs d2
price_from_put_at_d1(d, discounted, option_type) ==
  IF Raised(d) THEN d
  ELSE IF option_type = "CALL"
    THEN Return(FMul(d.value.adjusted_spot, norm_cdf(d.value.d1))
                - FMul(discounted, norm_cdf(d.value.d2)))
    ELSE Return(FMul(discounted, norm_cdf(-d.value.d1))
                - FMul(d.value.adjusted_spot, norm_cdf(-d.value.d1)))

price_from(d, discounted, option_type) ==
  IF Raised(d) THEN d
  ELSE IF option_type = "CALL"
    THEN Return(FMul(d.value.adjusted_spot, norm_cdf(d.value.d1))
                - FMul(discounted, norm_cdf(d.value.d2)))
    ELSE Return(FMul(discounted, norm_cdf(-d.value.d2))
                - FMul(d.value.adjusted_spot, norm_cdf(-d.value.d1)))

black_scholes_price(spot_price, strike_price, time_to_expiry, risk_free_rate, volatility, option_type, dividend_yield) ==
  IF time_to_expiry <= 0
    THEN IF option_type = "CALL"
           THEN Return(Max(spot_price - strike_price, 0))
           ELSE Return(Max(strike_price - spot_price, 0))
    ELSE price_from(d1_d2(spot_price, strike_price, time_to_expiry,
                          risk_free_rate, volatility, dividend_yield),
                    discounted_strike(strike_price, risk_free_rate,
                                      time_to_expiry),
                    option_type)

delta_from(d, e, option_type) ==
  IF Raised(d) THEN d
  ELSE IF option_type = "CALL"
    THEN Return(FMul(e, norm_cdf(d.value.d1)))
    ELSE Return(-FMul(e, norm_cdf(-d.value.d1)))

\* calculate_delta counting an option at the money as in the money at expiry
calculate_delta_at_the_money(spot_price, strike_price, time_to_expiry, risk_free_rate, volatility, option_type, dividend_yield) ==
  IF time_to_expiry <= 0
    THEN IF option_type = "CALL"
           THEN Return(IF spot_price >= strike_price THEN Scale ELSE 0)
           ELSE Return(IF spot_price <= strike_price THEN -Scale ELSE 0)
    ELSE delta_from(d1_d2(spot_price, strike_price, time_to_expiry,
                          risk_free_rate, volatility, dividend_yield),
                    dividend_discount(dividend_yield, time_to_expiry),
                    option_type)

calculate_delta(spot_price, strike_price, time_to_expiry, risk_free_rate, volatility, option_type, dividend_yield) ==
  IF time_to_expiry <= 0
    THEN IF option_type = "CALL"
           THEN Return(IF spot_price > strike_price THEN Scale ELSE 0)
           ELSE Return(IF spot_price < strike_price THEN -Scale ELSE 0)
    ELSE delta_from(d1_d2(spot_price, strike_price, time_to_expiry,
                          risk_free_rate, volatility, dividend_yield),
                    dividend_discount(dividend_yield, time_to_expiry),
                    option_type)

gamma_from(d, e, spot_price, volatility) ==
  IF Raised(d) THEN d
  ELSE IF FMul(spot_price, d.value.sqrt_t) * volatility = 0
    THEN Raise("ZeroDivisionError")
  ELSE Return(Quot(FMul(e, norm_pdf(d.value.d1)),
                   FMul(spot_price, d.value.sqrt_t) * volatility, 6))

\* calculate_gamma taking the closed form at a time of exactly zero
calculate_gamma_at_zero(spot_price, strike_price, time_to_expiry, risk_free_rate, volatility, dividend_yield) ==
  IF time_to_expiry < 0 THEN Return(0)
  ELSE gamma_from(d1_d2(spot_price, strike_price, time_to_expiry,
                        risk_free_rate, volatility, dividend_yield),
                  dividend_discount(dividend_yield, time_to_expiry),
                  spot_price, volatility)

calculate_gamma(spot_price, strike_price, time_to_expiry, risk_free_rate, volatility, dividend_yield) ==
  IF time_to_expiry <= 0 THEN Return(0)
  ELSE gamma_from(d1_d2(spot_price, strike_price, time_to_expiry,
                        risk_free_rate, volatility, dividend_yield),
                  dividend_discount(dividend_yield, time_to_expiry),
                  spot_price, volatility)

\* the annual theta of lines 167-174
annual_theta(d, discounted, risk_free_rate, volatility, option_type, dividend_yield) ==
  IF option_type = "CALL"
    THEN FDiv(-FMul(FMul(d.adjusted_spot, norm_pdf(d.d1)), volatility),
              2 * d.sqrt_t)
         + FMul(FMul(dividend_yield, d.adjusted_spot), norm_cdf(d.d1))
         - FMul(FMul(risk_free_rate, discounted), norm_cdf(d.d2))
    ELSE FDiv(-FMul(FMul(d.adjusted_spot, norm_pdf(d.d1)), volatility),
              2 * d.sqrt_t)
         - FMul(FMul(dividend_yield, d.adjusted_spot), norm_cdf(-d.d1))
         + FMul(FMul(risk_free_rate, discounted), norm_cdf(-d.d2))

theta_from(d, discounted, risk_free_rate, volatility, option_type, dividend_yield) ==
  IF Raised(d) THEN d
  ELSE Return(RDiv(annual_theta(d.value, discounted, risk_free_rate,
                                volatility, option_type, dividend_yield)
                   * 100, 36525))

\* theta per calendar day: the annual figure divided by 365.25
calculate_theta(spot_price, strike_price, time_to_expiry, risk_free_rate, volatility, option_type, dividend_yield) ==
  IF time_to_expiry <= 0 THEN Return(0)
  ELSE theta_from(d1_d2(spot_price, strike_price, time_to_expiry,
                        risk_free_rate, volatility, dividend_yield),
                  discounted_strike(strike_price, risk_free_rate,
                                    time_to_expiry),
                  risk_free_rate, volatility, option_type, dividend_yield)

vega_from(d) ==
  IF Raised(d) THEN d
  ELSE Return(FMul(FMul(d.value.adjusted_spot, norm_pdf(d.value.d1)),
                   d.value.sqrt_t))

\* vega per 1% of volatility, in units of 1/PctScale
calculate_vega(spot_price, strike_price, time_to_expiry, risk_free_rate, volatility, dividend_yield) ==
  IF time_to_expiry <= 0 THEN Return(0)
  ELSE vega_from(d1_d2(spot_price, strike_price, time_to_expiry,
                       risk_free_rate, volatility, dividend_yield))

rho_from(d, discounted, time_to_expiry, option_type) ==
  IF Raised(d) THEN d
  ELSE IF option_type = "CALL"
    THEN Return(FMul(FMul(discounted, time_to_expiry), norm_cdf(d.value.d2)))
    ELSE Return(-FMul(FMul(discounted, time_to_expiry),
                      norm_cdf(-d.value.d2)))

\* rho per 1% of rate, in units of 1/PctScale
calculate_rho(spot_price, strike_price, time_to_expiry, risk_free_rate, volatility, option_type, dividend_yield) ==
  IF time_to_expiry <= 0 THEN Return(0)
  ELSE rho_from(d1_d2(spot_price, strike_price, time_to_expiry,
                      risk_free_rate, volatility, dividend_yield),
                discounted_strike(strike_price, risk_free_rate,
                                  time_to_expiry),
                time_to_expiry, option_type)

\* ------------------------------------------------------------------------
\* Program constants
\* ------------------------------------------------------------------------

\* volatility = 0.3, the solver's initial guess
InitialGuess == 300

\* max(0.001, min(volatility, 5.0))
VolatilityFloor == 1

VolatilityCap == 5000

\* max_iterations: int = 100
DefaultMaxIterations == 100

\* tolerance: float = 1e-6, here the smallest positive amount
DefaultTolerance == 1

\* volatility = 0.3  # Default 30% volatility
DefaultVolatility == 300

\* edge_threshold: float = 0.10, min_time_to_expiry: float = 0.02
DefaultEdgeThreshold == 100

DefaultMinTimeToExpiry == 20

\* confidence=0.8 of the AVOID signal
AvoidConfidence == 800

\* ------------------------------------------------------------------------
\* Bounds of the model
\* ------------------------------------------------------------------------

\* fixed-point units by which four rounded products may differ from the
\* exact sum
RoundingUnits == 2

\* latest reading of the wall clock, in days
MaxClock == 1

\* ------------------------------------------------------------------------
\* Input domains
\* ------------------------------------------------------------------------

OptionTypes == {"CALL", "PUT"}

Spots == {100 * Scale}

Strikes == {0, 100 * Scale}

\* expiration_date, in days
Expirations == {0, 8, 30}

\* contract.current_price
MarketPrices == {0, 2721, 3591}

\* option_price passed directly to the solver
DirectPrices == MarketPrices \cup {150 * Scale}

Rates == {50}

Yields == {20}

StoredVolatilities == {None, Some(250)}

VolatilityArgs == {None, Some(0), Some(250)}

Timestamps == {None, Some(0)}

\* (edge_threshold, min_time_to_expiry) given to the constructor
Configs ==
  { [edge_threshold |-> DefaultEdgeThreshold,
     min_time_to_expiry |-> DefaultMinTimeToExpiry],
    [edge_threshold |-> DefaultEdgeThreshold, min_time_to_expiry |-> 0],
    [edge_threshold |-> 0, min_time_to_expiry |-> DefaultMinTimeToExpiry],
    [edge_threshold |-> -100, min_time_to_expiry |-> DefaultMinTimeToExpiry] }

\* time_to_expiry passed directly to the solver (any float)
DirectTimes == {-5, 0, 8, 82}

DirectMaxIterations == {0, 2, DefaultMaxIterations}

DirectTolerances == {DefaultTolerance, 50}

\* arguments of the formulas when they are called directly (any float)
FormulaStrikes == {0, 50 * Scale, 100 * Scale, 200 * Scale}

FormulaTimes == {-5, 0, 21, 82, Scale}

FormulaVolatilities == {0, 10, 250, Scale, 3 * Scale}

\* arguments of a price handed back to the solver: a volatility to recover,
\* in [0.01, 3.0], and a valid strike and time
RoundTripVolatilities == {10, 250, Scale, 3 * Scale}

RoundTripStrikes == {50 * Scale, 100 * Scale, 200 * Scale}

RoundTripTimes == {21, 82, Scale}

Contracts ==
  [strike_price : Strikes, expiration_date : Expirations,
   option_type : OptionTypes,
   current_price : {None} \cup {Some(p) : p \in MarketPrices},
   implied_volatility : StoredVolatilities]

MarketDatas ==
  [underlying_price : Spots, risk_free_rate : Rates,
   dividend_yield : Yields, timestamp : Timestamps]

NoContract ==
  [strike_price |-> 0, expiration_date |-> 0, option_type |-> "CALL",
   current_price |-> None, implied_volatility |-> None]

NoMarketData ==
  [underlying_price |-> 0, risk_free_rate |-> 0, dividend_yield |-> 0,
   timestamp |-> None]

DefaultConfig ==
  [edge_threshold |-> DefaultEdgeThreshold,
   min_time_to_expiry |-> DefaultMinTimeToExpiry]

NoSolver ==
  [option_price |-> 0, spot_price |-> 0, strike_price |-> 0,
   time_to_expiry |-> 0, risk_free_rate |-> 0, option_type |-> "CALL",
   dividend_yield |-> 0, max_iterations |-> 0, tolerance |-> 0,
   volatility |-> 0, i |-> 0]

NoFormulas ==
  [spot_price |-> 0, strike_price |-> 0, time_to_expiry |-> 0,
   risk_free_rate |-> 0, volatility |-> 0, option_type |-> "CALL",
   dividend_yield |-> 0, price |-> NoOutcome, delta |-> NoOutcome,
   gamma |-> NoOutcome, theta |-> NoOutcome, vega |-> NoOutcome,
   rho |-> NoOutcome]

\* ------------------------------------------------------------------------
\* State
\* ------------------------------------------------------------------------

VARIABLES
  now,            \* last reading of datetime.now() in this call, in days
  pc,             \* "idle", "iv_loop" (inside the solver's for loop), "done"
  op,             \* the public method being executed
  contract,       \* its OptionContract argument
  market_data,    \* its MarketData argument
  volatility_arg, \* its volatility / volatility_estimate argument
  self,           \* edge_threshold and min_time_to_expiry of the object
  time_to_expiry, \* analyze_option's local time_to_expiry
  solver,         \* arguments and locals of calculate_implied_volatility
  iv_outcome,     \* what calculate_implied_volatility returned or raised
  outcome,        \* what the public method returned or raised
  evaluations,    \* price/vega evaluations made by the solver in this call
  analyze_calls,  \* invocations of analyze_option in this call
  formula_calls,  \* volatility passed to each formula by analyze_option
  analysis,       \* what analyze_option returned or raised
  formulas        \* arguments and outcomes of the six formulas called directly

vars ==
  << now, pc, op, contract, market_data, volatility_arg, self,
     time_to_expiry, solver, iv_outcome, outcome, evaluations,
     analyze_calls, formula_calls, analysis, formulas >>

\* ------------------------------------------------------------------------
\* BlackScholesCalculator.time_to_expiration
\* ------------------------------------------------------------------------

\* current_date, a reading of the clock when the timestamp is None
current_date(timestamp, clock) ==
  IF timestamp = None THEN clock ELSE timestamp[1]

time_to_expiration(expiration_date, date) ==
  Max(Quot((expiration_date - date) * 86400, 31557600, 3), 0)

\* ------------------------------------------------------------------------
\* BlackScholesCalculator.calculate_implied_volatility
\* ------------------------------------------------------------------------

\* lines 230-234: the frame of a call about to enter the loop
solver_frame(option_price, spot_price, strike_price, t, risk_free_rate, option_type, dividend_yield, max_iterations, tolerance) ==
  [option_price |-> option_price, spot_price |-> spot_price,
   strike_price |-> strike_price, time_to_expiry |-> t,
   risk_free_rate |-> risk_free_rate, option_type |-> option_type,
   dividend_yield |-> dividend_yield, max_iterations |-> max_iterations,
   tolerance |-> tolerance, volatility |-> InitialGuess, i |-> 0]

\* returns_at_entry letting a time of exactly zero into the loop
returns_at_entry_negative(t) == t < 0

\* if time_to_expiry <= 0: return None
returns_at_entry(t) == t <= 0

\* loop_continues with one pass too many
loop_continues_inclusive(f) == f.i <= f.max_iterations

\* for i in range(max_iterations)
loop_continues(f) == f.i < f.max_iterations

\* clamp without its lower bound
clamp_cap_only(volatility) == Min(volatility, VolatilityCap)

\* volatility = max(0.001, min(volatility, 5.0))
clamp(volatility) == Max(VolatilityFloor, Min(volatility, VolatilityCap))

\* converged accepting a price a thousand tolerances off
converged_loose(price_diff, tolerance) == Abs(price_diff) < 1000 * tolerance

\* abs(price_diff) < tolerance
converged(price_diff, tolerance) == Abs(price_diff) < tolerance

\* volatility -= price_diff / vega, then the clamp; vega is the vega per
\* 1% times 100, in units of 1/PctScale
newton_step(volatility, price_diff, vega) ==
  clamp(volatility - Quot(price_diff * 100, vega, 3))

\* solver_decision handing back the current estimate when the vega is zero
solver_decision_stale(f, price, per_pct) ==
  IF Raised(price) THEN [done |-> TRUE, outcome |-> price, frame |-> f]
  ELSE IF Raised(per_pct)
    THEN [done |-> TRUE, outcome |-> per_pct, frame |-> f]
  ELSE IF converged(price.value - f.option_price, f.tolerance)
    THEN [done |-> TRUE, outcome |-> Return(Some(f.volatility)), frame |-> f]
  ELSE IF per_pct.value * 100 = 0
    THEN [done |-> TRUE, outcome |-> Return(Some(f.volatility)), frame |-> f]
  ELSE [done |-> FALSE, outcome |-> NoOutcome,
        frame |-> [f EXCEPT
          !.volatility = newton_step(f.volatility,
                                     price.value - f.option_price,
                                     per_pct.value * 100),
          !.i = f.i + 1]]

\* lines 242-253, with the price and the vega per 1% just evaluated
solver_decision(f, price, per_pct) ==
  IF Raised(price) THEN [done |-> TRUE, outcome |-> price, frame |-> f]
  ELSE IF Raised(per_pct)
    THEN [done |-> TRUE, outcome |-> per_pct, frame |-> f]
  ELSE IF converged(price.value - f.option_price, f.tolerance)
    THEN [done |-> TRUE, outcome |-> Return(Some(f.volatility)), frame |-> f]
  ELSE IF per_pct.value * 100 = 0
    THEN [done |-> TRUE, outcome |-> Return(None), frame |-> f]
  ELSE [done |-> FALSE, outcome |-> NoOutcome,
        frame |-> [f EXCEPT
          !.volatility = newton_step(f.volatility,
                                     price.value - f.option_price,
                                     per_pct.value * 100),
          !.i = f.i + 1]]

\* One pass of the loop body.  done tells whether the call ends; outcome is
\* then what it returns or raises, and frame the locals otherwise.
solver_iteration(f) ==
  solver_decision(f,
    black_scholes_price(f.spot_price, f.strike_price, f.time_to_expiry,
                        f.risk_free_rate, f.volatility, f.option_type,
                        f.dividend_yield),
    calculate_vega(f.spot_price, f.strike_price, f.time_to_expiry,
                   f.risk_free_rate, f.volatility, f.dividend_yield))

\* ------------------------------------------------------------------------
\* BlackScholesCalculator.analyze_option
\* ------------------------------------------------------------------------

\* volatility is None and contract.current_price is not None
runs_solver(c, volatility) == volatility = None /\ c.current_price # None

\* resolve_volatility with the stored implied volatility ahead of the
\* caller's override
resolve_volatility_stored_first(c, volatility, solved) ==
  IF volatility = None /\ c.current_price # None THEN solved
  ELSE IF c.implied_volatility # None THEN c.implied_volatility
  ELSE IF volatility = None THEN Some(DefaultVolatility)
  ELSE volatility

\* lines 265-278; solved is what calculate_implied_volatility returned
resolve_volatility(c, volatility, solved) ==
  IF volatility = None /\ c.current_price # None THEN solved
  ELSE IF volatility = None /\ c.implied_volatility # None
    THEN c.implied_volatility
  ELSE IF volatility = None THEN Some(DefaultVolatility)
  ELSE volatility

\* the volatility argument of the six formula calls, in call order
formula_volatilities(volatility) ==
  [n \in 1..6 |-> volatility]

\* lines 342-350, or the first exception among the six formula calls
black_scholes_result(resolved, theoretical_price, delta, gamma, theta, vega, rho) ==
  IF Raised(theoretical_price) THEN theoretical_price
  ELSE IF Raised(delta) THEN delta
  ELSE IF Raised(gamma) THEN gamma
  ELSE IF Raised(theta) THEN theta
  ELSE IF Raised(vega) THEN vega
  ELSE IF Raised(rho) THEN rho
  ELSE Return([theoretical_price |-> theoretical_price.value,
               delta |-> delta.value,
               gamma |-> gamma.value,
               theta |-> theta.value,
               vega |-> vega.value,
               rho |-> rho.value,
               implied_volatility |-> resolved])

\* lines 284-350, v the volatility handed to each formula
six_formulas(c, m, t, resolved, v) ==
  black_scholes_result(resolved,
    black_scholes_price(m.underlying_price, c.strike_price, t,
                        m.risk_free_rate, v[1], c.option_type,
                        m.dividend_yield),
    calculate_delta(m.underlying_price, c.strike_price, t,
                    m.risk_free_rate, v[2], c.option_type, m.dividend_yield),
    calculate_gamma(m.underlying_price, c.strike_price, t,
                    m.risk_free_rate, v[3], m.dividend_yield),
    calculate_theta(m.underlying_price, c.strike_price, t,
                    m.risk_free_rate, v[4], c.option_type, m.dividend_yield),
    calculate_vega(m.underlying_price, c.strike_price, t,
                   m.risk_free_rate, v[5], m.dividend_yield),
    calculate_rho(m.underlying_price, c.strike_price, t,
                  m.risk_free_rate, v[6], c.option_type, m.dividend_yield))

\* lines 280-350, with the volatility resolved
price_and_greeks(c, m, t, resolved) ==
  IF resolved = None
    THEN Raise("ValueError: Cannot determine volatility")
    ELSE six_formulas(c, m, t, resolved, formula_volatilities(resolved[1]))

\* analyze_option from the return of the solver (or from line 275 when the
\* solver is not run): an exception of the solver propagates
analyze_option(c, m, t, volatility, solved) ==
  IF Raised(solved) THEN solved
  ELSE price_and_greeks(c, m, t,
                        resolve_volatility(c, volatility, solved.value))

volatilities_passed(resolved) ==
  IF resolved = None THEN << >> ELSE formula_volatilities(resolved[1])

\* the volatilities analyze_option hands to the formulas, << >> if it
\* raises before calling them
formulas_called(c, volatility, solved) ==
  IF Raised(solved) THEN << >>
  ELSE volatilities_passed(resolve_volatility(c, volatility, solved.value))

\* ------------------------------------------------------------------------
\* OptionsTradingConfirmation.analyze_trade_opportunity
\* ------------------------------------------------------------------------

TradingSignal(action, confidence, reasoning, fair_value, market_price, edge) ==
  [action |-> action, confidence |-> confidence, reasoning |-> reasoning,
   fair_value |-> fair_value, market_price |-> market_price, edge |-> edge]

\* no_market_price_signal with the confidence of a neutral HOLD
no_market_price_signal_neutral ==
  TradingSignal("HOLD", Scale, << "No market price available for analysis" >>,
                0, 0, 0)

\* lines 376-384
no_market_price_signal ==
  TradingSignal("HOLD", 0, << "No market price available for analysis" >>,
                0, 0, 0)

\* edge = (fair_value - market_price) / market_price if market_price > 0 else 0
edge_of(fair_value, market_price) ==
  IF market_price > 0 THEN FDiv(fair_value - market_price, market_price)
  ELSE 0

\* confidence = min(abs(edge) / self.edge_threshold, 1.0)
confidence_of(cfg, edge) == Min(FDiv(Abs(edge), cfg.edge_threshold), Scale)

\* classify with the threshold itself counted as an edge
classify_inclusive(cfg, confidence, fair_value, market_price, edge) ==
  IF edge >= cfg.edge_threshold
    THEN TradingSignal("BUY", confidence,
                       << "Option undervalued", "Greeks" >>,
                       fair_value, market_price, edge)
  ELSE IF edge <= -cfg.edge_threshold
    THEN TradingSignal("SELL", confidence,
                       << "Option overvalued", "Greeks" >>,
                       fair_value, market_price, edge)
  ELSE TradingSignal("HOLD", Scale - confidence,
                     << "Option fairly valued", "Greeks" >>,
                     fair_value, market_price, edge)

\* lines 418-439
classify(cfg, confidence, fair_value, market_price, edge) ==
  IF edge > cfg.edge_threshold
    THEN TradingSignal("BUY", confidence,
                       << "Option undervalued", "Greeks" >>,
                       fair_value, market_price, edge)
  ELSE IF edge < -cfg.edge_threshold
    THEN TradingSignal("SELL", confidence,
                       << "Option overvalued", "Greeks" >>,
                       fair_value, market_price, edge)
  ELSE TradingSignal("HOLD", Scale - confidence,
                     << "Option fairly valued", "Greeks" >>,
                     fair_value, market_price, edge)

\* lines 415-439: the division by edge_threshold raises when it is zero
edge_signal(cfg, fair_value, market_price, edge) ==
  IF cfg.edge_threshold = 0 THEN Raise("ZeroDivisionError")
  ELSE Return(classify(cfg, confidence_of(cfg, edge), fair_value,
                       market_price, edge))

\* timed_signal avoiding expired contracts only
timed_signal_expired_only(cfg, fair_value, market_price, edge, t2) ==
  IF t2 <= 0
    THEN Return(TradingSignal("AVOID", AvoidConfidence,
                              << "Option expires too soon" >>,
                              fair_value, market_price, edge))
    ELSE edge_signal(cfg, fair_value, market_price, edge)

\* lines 403-439
timed_signal(cfg, fair_value, market_price, edge, t2) ==
  IF t2 < cfg.min_time_to_expiry
    THEN Return(TradingSignal("AVOID", AvoidConfidence,
                              << "Option expires too soon" >>,
                              fair_value, market_price, edge))
    ELSE edge_signal(cfg, fair_value, market_price, edge)

\* lines 387-439: analyzed is what analyze_option returned or raised, t2 the
\* time to expiry computed at line 404
trade_signal(cfg, c, analyzed, t2) ==
  IF Raised(analyzed)
    THEN Return(TradingSignal("HOLD", 0,
                              << "Analysis failed", analyzed.error >>,
                              0, c.current_price[1], 0))
    ELSE timed_signal(cfg, analyzed.value.theoretical_price,
                      c.current_price[1],
                      edge_of(analyzed.value.theoretical_price,
                              c.current_price[1]),
                      t2)

\* ------------------------------------------------------------------------
\* The state machine: one public call at a time, the solver loop stepwise
\* ------------------------------------------------------------------------

Init ==
  /\ now = 0
  /\ pc = "idle"
  /\ op = "none"
  /\ contract = NoContract
  /\ market_data = NoMarketData
  /\ volatility_arg = None
  /\ self = DefaultConfig
  /\ time_to_expiry = 0
  /\ solver = NoSolver
  /\ iv_outcome = NoOutcome
  /\ outcome = NoOutcome
  /\ evaluations = 0
  /\ analyze_calls = 0
  /\ formula_calls = << >>
  /\ analysis = NoOutcome
  /\ formulas = NoFormulas

\* readings of datetime.now() later than the last one: the clock never runs
\* backwards during a call
ClockReadings == now..MaxClock

\* a call is made at any time
CallTimes == 0..MaxClock

\* the clock after current_date was taken: read only for a None timestamp
clock_after(m, reading) == IF m.timestamp = None THEN reading ELSE now

\* What the caller of the solver does with its outcome solved, the clock
\* reading reading2 serving line 404.
finish(the_op, cfg, c, m, solved, analyzed, reading2) ==
  IF the_op = "calculate_implied_volatility" THEN solved
  ELSE IF the_op = "analyze_option" THEN analyzed
  ELSE trade_signal(cfg, c, analyzed,
                    time_to_expiration(c.expiration_date,
                                       current_date(m.timestamp, reading2)))

\* calculate_implied_volatility called by itself
CallImpliedVolatility ==
  /\ pc = "idle"
  /\ \E option_price \in DirectPrices, spot_price \in Spots,
        strike_price \in Strikes, t \in DirectTimes,
        risk_free_rate \in Rates, option_type \in OptionTypes,
        dividend_yield \in Yields, max_iterations \in DirectMaxIterations,
        tolerance \in DirectTolerances :
       /\ solver' = solver_frame(option_price, spot_price, strike_price, t,
                                 risk_free_rate, option_type, dividend_yield,
                                 max_iterations, tolerance)
       /\ IF returns_at_entry(t)
            THEN /\ pc' = "done"
                 /\ iv_outcome' = Return(None)
                 /\ outcome' = Return(None)
            ELSE /\ pc' = "iv_loop"
                 /\ iv_outcome' = NoOutcome
                 /\ outcome' = NoOutcome
  /\ op' = "calculate_implied_volatility"
  /\ evaluations' = 0
  /\ analyze_calls' = 0
  /\ formula_calls' = << >>
  /\ analysis' = NoOutcome
  /\ UNCHANGED << now, contract, market_data, volatility_arg, self,
                  time_to_expiry, formulas >>

\* analyze_option entered with c, m, volatility at clock reading reading,
\* where it computes the time to expiry t; reading2 is the later reading of
\* line 404 (analyze_trade_opportunity)
enter_analysis(the_op, cfg, c, m, volatility, reading, reading2, t) ==
  /\ op' = the_op
  /\ contract' = c
  /\ market_data' = m
  /\ volatility_arg' = volatility
  /\ self' = cfg
  /\ time_to_expiry' = t
  /\ evaluations' = 0
  /\ analyze_calls' = 1
  /\ formulas' = formulas
  /\ solver' = IF runs_solver(c, volatility)
                 THEN solver_frame(c.current_price[1], m.underlying_price,
                                   c.strike_price, t, m.risk_free_rate,
                                   c.option_type, m.dividend_yield,
                                   DefaultMaxIterations, DefaultTolerance)
                 ELSE NoSolver
  /\ IF runs_solver(c, volatility) /\ ~returns_at_entry(t)
       THEN /\ pc' = "iv_loop"
            /\ iv_outcome' = NoOutcome
            /\ outcome' = NoOutcome
            /\ formula_calls' = << >>
            /\ analysis' = NoOutcome
            /\ now' = clock_after(m, reading)
       ELSE /\ pc' = "done"
            /\ iv_outcome' = IF runs_solver(c, volatility)
                               THEN Return(None) ELSE NoOutcome
            /\ \E analyzed \in {analyze_option(c, m, t, volatility,
                                                Return(None))} :
                 /\ analysis' = analyzed
                 /\ outcome' = finish(the_op, cfg, c, m, Return(None),
                                      analyzed, reading2)
            /\ formula_calls' = formulas_called(c, volatility, Return(None))
            /\ now' = clock_after(m, reading2)

CallAnalyzeOption ==
  /\ pc = "idle"
  /\ \E c \in Contracts, m \in MarketDatas, volatility \in VolatilityArgs,
        reading \in CallTimes :
       enter_analysis("analyze_option", DefaultConfig, c, m, volatility,
                      reading, reading,
                      time_to_expiration(c.expiration_date,
                                         current_date(m.timestamp, reading)))

CallAnalyzeTradeOpportunity ==
  /\ pc = "idle"
  /\ \E cfg \in Configs, c \in Contracts, m \in MarketDatas,
        volatility \in VolatilityArgs :
       IF c.current_price = None
         THEN /\ op' = "analyze_trade_opportunity"
              /\ contract' = c
              /\ market_data' = m
              /\ volatility_arg' = volatility
              /\ self' = cfg
              /\ pc' = "done"
              /\ outcome' = Return(no_market_price_signal)
              /\ iv_outcome' = NoOutcome
              /\ solver' = NoSolver
              /\ evaluations' = 0
              /\ analyze_calls' = 0
              /\ formula_calls' = << >>
              /\ analysis' = NoOutcome
              /\ UNCHANGED << now, time_to_expiry, formulas >>
         ELSE \E reading \in CallTimes :
                \E reading2 \in reading..MaxClock :
                  enter_analysis("analyze_trade_opportunity", cfg, c, m,
                                 volatility, reading, reading2,
                                 time_to_expiration(c.expiration_date,
                                   current_date(m.timestamp, reading)))

\* the six formulas evaluated on one set of arguments
formula_results(spot_price, strike_price, t, risk_free_rate, volatility, option_type, dividend_yield) ==
  [spot_price |-> spot_price, strike_price |-> strike_price,
   time_to_expiry |-> t, risk_free_rate |-> risk_free_rate,
   volatility |-> volatility, option_type |-> option_type,
   dividend_yield |-> dividend_yield,
   price |-> black_scholes_price(spot_price, strike_price, t, risk_free_rate,
                                 volatility, option_type, dividend_yield),
   delta |-> calculate_delta(spot_price, strike_price, t, risk_free_rate,
                             volatility, option_type, dividend_yield),
   gamma |-> calculate_gamma(spot_price, strike_price, t, risk_free_rate,
                             volatility, dividend_yield),
   theta |-> calculate_theta(spot_price, strike_price, t, risk_free_rate,
                             volatility, option_type, dividend_yield),
   vega |-> calculate_vega(spot_price, strike_price, t, risk_free_rate,
                           volatility, dividend_yield),
   rho |-> calculate_rho(spot_price, strike_price, t, risk_free_rate,
                         volatility, option_type, dividend_yield)]

\* the formulas called by themselves, each on the same arguments
CallFormulas ==
  /\ pc = "idle"
  /\ \E spot_price \in Spots, strike_price \in FormulaStrikes,
        t \in FormulaTimes, risk_free_rate \in Rates,
        volatility \in FormulaVolatilities, option_type \in OptionTypes,
        dividend_yield \in Yields :
       formulas' = formula_results(spot_price, strike_price, t,
                                   risk_free_rate, volatility, option_type,
                                   dividend_yield)
  /\ pc' = "done"
  /\ op' = "formulas"
  /\ UNCHANGED << now, contract, market_data, volatility_arg, self,
                  time_to_expiry, solver, iv_outcome, outcome, evaluations,
                  analyze_calls, formula_calls, analysis >>

\* calculate_implied_volatility called on the price black_scholes_price gave
\* for the volatility priced.volatility, all other arguments the same
round_trip(priced) ==
  /\ priced.price.kind = "return"
  /\ formulas' = priced
  /\ solver' = solver_frame(priced.price.value, priced.spot_price,
                            priced.strike_price, priced.time_to_expiry,
                            priced.risk_free_rate, priced.option_type,
                            priced.dividend_yield, DefaultMaxIterations,
                            DefaultTolerance)

CallRoundTrip ==
  /\ pc = "idle"
  /\ \E spot_price \in Spots, strike_price \in RoundTripStrikes,
        t \in RoundTripTimes, risk_free_rate \in Rates,
        volatility \in RoundTripVolatilities, option_type \in OptionTypes,
        dividend_yield \in Yields :
       round_trip(formula_results(spot_price, strike_price, t,
                                  risk_free_rate, volatility, option_type,
                                  dividend_yield))
  /\ pc' = "iv_loop"
  /\ op' = "calculate_implied_volatility"
  /\ iv_outcome' = NoOutcome
  /\ outcome' = NoOutcome
  /\ evaluations' = 0
  /\ analyze_calls' = 0
  /\ formula_calls' = << >>
  /\ analysis' = NoOutcome
  /\ UNCHANGED << now, contract, market_data, volatility_arg, self,
                  time_to_expiry >>

\* the solver ends with outcome solved and its caller runs to its own end
solver_returns(solved, reading2) ==
  /\ pc' = "done"
  /\ iv_outcome' = solved
  /\ \E analyzed \in {IF op = "calculate_implied_volatility"
                         THEN NoOutcome
                         ELSE analyze_option(contract, market_data,
                                             time_to_expiry, volatility_arg,
                                             solved)} :
       /\ analysis' = analyzed
       /\ outcome' = finish(op, self, contract, market_data, solved,
                            analyzed, reading2)
  /\ formula_calls' = IF op = "calculate_implied_volatility" THEN << >>
                      ELSE formulas_called(contract, volatility_arg, solved)
  /\ now' = IF op = "analyze_trade_opportunity"
              THEN clock_after(market_data, reading2)
              ELSE now

\* one pass of the solver's for loop, or its exit after max_iterations
\* passes
SolverIteration ==
  /\ pc = "iv_loop"
  /\ IF loop_continues(solver)
       THEN \E step \in {solver_iteration(solver)} :
              /\ evaluations' = evaluations + 1
              /\ solver' = step.frame
              /\ IF step.done
                   THEN \E reading2 \in ClockReadings :
                          solver_returns(step.outcome, reading2)
                   ELSE /\ pc' = "iv_loop"
                        /\ UNCHANGED << iv_outcome, outcome, formula_calls,
                                        analysis, now >>
       ELSE /\ \E reading2 \in ClockReadings :
                 solver_returns(Return(None), reading2)
            /\ UNCHANGED << solver, evaluations >>
  /\ UNCHANGED << op, contract, market_data, volatility_arg, self,
                  time_to_expiry, analyze_calls, formulas >>

\* the call has returned or raised; the caller may make another, at any time
NextCall ==
  /\ pc = "done"
  /\ pc' = "idle"
  /\ op' = "none"
  /\ contract' = NoContract
  /\ market_data' = NoMarketData
  /\ volatility_arg' = None
  /\ self' = DefaultConfig
  /\ time_to_expiry' = 0
  /\ solver' = NoSolver
  /\ iv_outcome' = NoOutcome
  /\ outcome' = NoOutcome
  /\ evaluations' = 0
  /\ analyze_calls' = 0
  /\ formula_calls' = << >>
  /\ analysis' = NoOutcome
  /\ formulas' = NoFormulas
  /\ now' = 0

Next ==
  \/ CallImpliedVolatility
  \/ CallAnalyzeOption
  \/ CallAnalyzeTradeOpportunity
  \/ SolverIteration
  \/ CallFormulas
  \/ CallRoundTrip
  \/ NextCall

Spec == Init /\ [][Next]_vars

\* ------------------------------------------------------------------------
\* State functions of the properties
\* ------------------------------------------------------------------------

\* the time to expiry analyze_trade_opportunity computes at line 404, in a
\* state where that call has ended
expiry_check_time ==
  time_to_expiration(contract.expiration_date,
                     current_date(market_data.timestamp, now))

\* the contract satisfies the data model: a positive strike and, if a market
\* price was observed, a positive one
well_formed_contract ==
  /\ contract.strike_price > 0
  /\ contract.current_price = None \/ contract.current_price[1] > 0

\* calculate_implied_volatility has been entered in the current call
solver_called ==
  \/ op = "calculate_implied_volatility"
  \/ analyze_calls = 1 /\ runs_solver(contract, volatility_arg)

\* the price and the vega per 1% at the solver's current estimate
price_at_estimate ==
  black_scholes_price(solver.spot_price, solver.strike_price,
                      solver.time_to_expiry, solver.risk_free_rate,
                      solver.volatility, solver.option_type,
                      solver.dividend_yield)

vega_at_estimate ==
  calculate_vega(solver.spot_price, solver.strike_price,
                 solver.time_to_expiry, solver.risk_free_rate,
                 solver.volatility, solver.dividend_yield)

\* ------------------------------------------------------------------------
\* Properties of analyze_option
\* ------------------------------------------------------------------------

\* C1: whenever analyze_option returns, the implied_volatility of its result
\* is the caller's override if one was given, else the solver's result if the
\* contract has a market price, else the contract's stored implied
\* volatility if it has one, else 0.30; all six formulas were called with
\* exactly that value; and with an override the solver was not run.
C1_VolatilityResolutionOrder ==
  (pc = "done" /\ analysis.kind = "return") =>
    /\ analysis.value.implied_volatility =
         IF volatility_arg # None THEN volatility_arg
         ELSE IF contract.current_price # None THEN iv_outcome.value
         ELSE IF contract.implied_volatility # None
           THEN contract.implied_volatility
         ELSE Some((3 * Scale) \div 10)
    /\ analysis.value.implied_volatility # None
    /\ formula_calls = [n \in 1..6 |-> analysis.value.implied_volatility[1]]
    /\ (volatility_arg # None) => (evaluations = 0 /\ iv_outcome = NoOutcome)

\* analyze_option returned the volatility the solver found, although the
\* contract stores another one
C1_SolvedVolatilityUsed ==
  /\ pc = "done"
  /\ op = "analyze_option"
  /\ volatility_arg = None
  /\ contract.current_price # None
  /\ contract.implied_volatility # None
  /\ evaluations > 0
  /\ analysis.kind = "return"
  /\ analysis.value.implied_volatility = iv_outcome.value
  /\ analysis.value.implied_volatility # contract.implied_volatility

\* C2: for a contract with positive strike and price, analyze_option raises "Cannot
\* determine volatility" only when there is no override, the solver found
\* no implied volatility and the contract stores none; it does not raise
\* when the solver found nothing but the contract stores an implied
\* volatility.
C2_FatalOnlyWithoutFallback ==
  (pc = "done" /\ well_formed_contract
     /\ analysis = Raise("ValueError: Cannot determine volatility")) =>
    /\ volatility_arg = None
    /\ contract.current_price # None => iv_outcome = Return(None)
    /\ contract.implied_volatility = None

\* ------------------------------------------------------------------------
\* Properties of analyze_trade_opportunity
\* ------------------------------------------------------------------------

\* C3: for a contract without a market price analyze_trade_opportunity
\* returns HOLD with confidence 0 and edge 0 whatever the other inputs and
\* the thresholds are, and neither analyze_option nor the solver nor a
\* formula is called.
C3_NoMarketPriceHolds ==
  (pc = "done" /\ op = "analyze_trade_opportunity"
     /\ contract.current_price = None) =>
    /\ outcome.kind = "return"
    /\ outcome.value.action = "HOLD"
    /\ outcome.value.confidence = 0
    /\ outcome.value.edge = 0
    /\ analyze_calls = 0
    /\ analysis = NoOutcome
    /\ evaluations = 0
    /\ formula_calls = << >>

\* a HOLD for a priceless contract with a zero strike, a zero volatility
\* override and a zero edge threshold
C3_HoldDespiteDegenerateInputs ==
  /\ pc = "done"
  /\ op = "analyze_trade_opportunity"
  /\ contract.current_price = None
  /\ contract.strike_price = 0
  /\ volatility_arg = Some(0)
  /\ self.edge_threshold = 0
  /\ outcome.kind = "return"
  /\ outcome.value.action = "HOLD"

\* C4: for a contract with a positive market price and a positive strike,
\* analyze_trade_opportunity never ends in an exception, and when
\* analyze_option fails it returns HOLD with confidence 0, edge 0 and the
\* failure reason in the reasoning.
C4_NeverPropagates ==
  (pc = "done" /\ op = "analyze_trade_opportunity"
     /\ contract.current_price # None /\ well_formed_contract) =>
    /\ outcome.kind = "return"
    /\ Raised(analysis) =>
         /\ outcome.value.action = "HOLD"
         /\ outcome.value.confidence = 0
         /\ outcome.value.edge = 0
         /\ outcome.value.reasoning = << "Analysis failed", analysis.error >>

\* C5 as stated: for a contract with a positive strike and a positive
\* market price, whenever the time to expiry is below min_time_to_expiry,
\* zero included, the signal is AVOID with confidence 0.8, with or without a
\* volatility override.
C5_AvoidWheneverTooSoon ==
  (pc = "done" /\ op = "analyze_trade_opportunity"
     /\ contract.current_price # None /\ well_formed_contract
     /\ expiry_check_time < self.min_time_to_expiry) =>
    /\ outcome.kind = "return"
    /\ outcome.value.action = "AVOID"
    /\ outcome.value.confidence = (8 * Scale) \div 10

\* C5: for a contract with a market price, whenever analyze_option has
\* succeeded and the time to expiry computed at line 404 is below
\* min_time_to_expiry, the signal is AVOID with confidence 0.8 whatever the
\* edge and the edge threshold are; when analyze_option has failed the
\* signal is HOLD with confidence 0 instead.
C5_AvoidAfterSuccessfulAnalysis ==
  (pc = "done" /\ op = "analyze_trade_opportunity"
     /\ contract.current_price # None
     /\ expiry_check_time < self.min_time_to_expiry) =>
    /\ outcome.kind = "return"
    /\ analysis.kind = "return" =>
         /\ outcome.value.action = "AVOID"
         /\ outcome.value.confidence = (8 * Scale) \div 10
    /\ analysis.kind = "raise" =>
         /\ outcome.value.action = "HOLD"
         /\ outcome.value.confidence = 0

\* an expired contract priced with an override is avoided although its edge
\* is beyond the threshold
C5_ExpiredContractAvoided ==
  /\ pc = "done"
  /\ op = "analyze_trade_opportunity"
  /\ time_to_expiry = 0
  /\ expiry_check_time = 0
  /\ volatility_arg # None
  /\ outcome.kind = "return"
  /\ outcome.value.action = "AVOID"
  /\ outcome.value.edge < -self.edge_threshold
  /\ self.edge_threshold > 0

\* C6: when analyze_option has succeeded, the time to expiry computed at
\* line 404 is at least min_time_to_expiry and edge_threshold is not zero,
\* the signal carries edge = (fair_value - market_price) / market_price
\* (0 when market_price <= 0); it is BUY when edge > edge_threshold and SELL
\* when edge < -edge_threshold, both with confidence
\* min(|edge| / edge_threshold, 1), and HOLD with confidence
\* 1 - min(|edge| / edge_threshold, 1) for every other edge, an edge equal to
\* the threshold included.
C6_EdgeClassification ==
  (pc = "done" /\ op = "analyze_trade_opportunity"
     /\ analysis.kind = "return"
     /\ expiry_check_time >= self.min_time_to_expiry
     /\ self.edge_threshold # 0) =>
    /\ outcome.kind = "return"
    /\ outcome.value.fair_value = analysis.value.theoretical_price
    /\ outcome.value.market_price = contract.current_price[1]
    /\ outcome.value.edge =
         IF outcome.value.market_price > 0
           THEN FDiv(outcome.value.fair_value - outcome.value.market_price,
                     outcome.value.market_price)
           ELSE 0
    /\ outcome.value.action =
         IF outcome.value.edge > self.edge_threshold THEN "BUY"
         ELSE IF outcome.value.edge < -self.edge_threshold THEN "SELL"
         ELSE "HOLD"
    /\ outcome.value.confidence =
         IF outcome.value.action = "HOLD"
           THEN Scale - Min(FDiv(Abs(outcome.value.edge),
                                 self.edge_threshold), Scale)
           ELSE Min(FDiv(Abs(outcome.value.edge), self.edge_threshold),
                    Scale)

\* an edge exactly at a positive threshold is held with confidence 0
C6_EdgeAtThresholdHeld ==
  /\ pc = "done"
  /\ op = "analyze_trade_opportunity"
  /\ outcome.kind = "return"
  /\ self.edge_threshold > 0
  /\ outcome.value.edge = self.edge_threshold
  /\ outcome.value.action = "HOLD"
  /\ outcome.value.confidence = 0

\* C7: every signal analyze_trade_opportunity returns, whatever
\* edge_threshold and min_time_to_expiry the caller chose, has its action
\* among BUY, SELL, HOLD and AVOID and its confidence between 0 and 1.
C7_SignalWellFormed ==
  (pc = "done" /\ op = "analyze_trade_opportunity"
     /\ outcome.kind = "return") =>
    /\ outcome.value.action \in {"BUY", "SELL", "HOLD", "AVOID"}
    /\ outcome.value.confidence >= 0
    /\ outcome.value.confidence <= Scale

\* ------------------------------------------------------------------------
\* Properties of calculate_implied_volatility
\* ------------------------------------------------------------------------

\* C8: whenever calculate_implied_volatility is entered with
\* time_to_expiry <= 0 it has returned None at once, for every price and
\* every other argument, without one evaluation of the price or the vega.
C8_NotFoundAtOrPastExpiry ==
  (solver_called /\ solver.time_to_expiry <= 0) =>
    /\ pc = "done"
    /\ iv_outcome = Return(None)
    /\ evaluations = 0
    /\ solver.i = 0
    /\ solver.volatility = InitialGuess

\* a direct call past expiry with a positive price and a positive strike
\* returned None
C8_PastExpiryCall ==
  /\ pc = "done"
  /\ op = "calculate_implied_volatility"
  /\ solver.time_to_expiry < 0
  /\ solver.option_price > 0
  /\ solver.strike_price > 0
  /\ solver.max_iterations > 0
  /\ outcome = Return(None)

\* C9: calculate_implied_volatility always terminates: it never makes more
\* than max_iterations evaluations of the price and the vega; every step of
\* a call inside its loop either ends the call or advances the loop counter,
\* which counts the evaluations made, while the estimate stays between the
\* clamp bounds; with a positive strike the call ends by returning a
\* volatility or None.
C9_SolverTerminates ==
  /\ [](/\ evaluations <= solver.max_iterations
        /\ pc = "iv_loop" =>
             /\ solver.i = evaluations
             /\ solver.volatility >= VolatilityFloor
             /\ solver.volatility <= VolatilityCap
        /\ (pc = "done" /\ solver_called /\ solver.strike_price > 0)
             => iv_outcome.kind = "return")
  /\ [][pc = "iv_loop" =>
          \/ pc' = "done"
          \/ pc' = "iv_loop" /\ solver'.i = solver.i + 1]_vars

\* a call that spent all its max_iterations evaluations at the volatility
\* cap and returned None
C9_IterationCapReached ==
  /\ pc = "done"
  /\ solver_called
  /\ solver.max_iterations = DefaultMaxIterations
  /\ evaluations = solver.max_iterations
  /\ solver.volatility = VolatilityCap
  /\ iv_outcome = Return(None)

\* C10: a volatility returned by calculate_implied_volatility is the
\* estimate whose price was last checked and that price is within tolerance
\* of option_price; the result is None when max_iterations checks have all
\* failed, and when the last estimate checked is off by tolerance or more
\* and has a raw vega of 0.
C10_NoStaleEstimate ==
  (pc = "done" /\ solver_called /\ iv_outcome.kind = "return") =>
    /\ iv_outcome.value # None =>
         /\ iv_outcome.value[1] = solver.volatility
         /\ solver.i < solver.max_iterations
         /\ price_at_estimate.kind = "return"
         /\ Abs(price_at_estimate.value - solver.option_price)
              < solver.tolerance
    /\ solver.i = solver.max_iterations => iv_outcome.value = None
    /\ (/\ price_at_estimate.kind = "return"
        /\ Abs(price_at_estimate.value - solver.option_price)
             >= solver.tolerance
        /\ vega_at_estimate.kind = "return"
        /\ vega_at_estimate.value * 100 = 0) => iv_outcome.value = None

\* a volatility other than the initial guess returned after several passes
C10_ConvergedAfterUpdates ==
  /\ pc = "done"
  /\ solver_called
  /\ evaluations >= 3
  /\ iv_outcome.kind = "return"
  /\ iv_outcome.value # None
  /\ iv_outcome.value[1] # InitialGuess
  /\ solver.option_price > 0

\* ------------------------------------------------------------------------
\* Properties of the closed-form formulas
\* ------------------------------------------------------------------------

\* the formulas have been called directly on the arguments in formulas
formulas_called_directly == pc = "done" /\ op = "formulas"

\* the price of the option of the other type on the same arguments
opposite_price ==
  black_scholes_price(formulas.spot_price, formulas.strike_price,
                      formulas.time_to_expiry, formulas.risk_free_rate,
                      formulas.volatility,
                      IF formulas.option_type = "CALL" THEN "PUT" ELSE "CALL",
                      formulas.dividend_yield)

\* spot * exp(-q * t) - strike * exp(-r * t)
forward_difference ==
  FMul(formulas.spot_price,
       dividend_discount(formulas.dividend_yield, formulas.time_to_expiry))
  - discounted_strike(formulas.strike_price, formulas.risk_free_rate,
                      formulas.time_to_expiry)

\* C11: with time_to_expiry <= 0 and any volatility, black_scholes_price
\* returns max(spot - strike, 0) for a CALL and max(strike - spot, 0) for a
\* PUT; gamma, theta, vega and rho return 0; delta returns 1 for a CALL with
\* spot > strike, -1 for a PUT with spot < strike and 0 otherwise.
C11_IntrinsicAtOrPastExpiry ==
  (formulas_called_directly /\ formulas.time_to_expiry <= 0) =>
    /\ formulas.price =
         Return(IF formulas.option_type = "CALL"
                  THEN Max(formulas.spot_price - formulas.strike_price, 0)
                  ELSE Max(formulas.strike_price - formulas.spot_price, 0))
    /\ formulas.gamma = Return(0)
    /\ formulas.theta = Return(0)
    /\ formulas.vega = Return(0)
    /\ formulas.rho = Return(0)
    /\ formulas.delta =
         Return(IF formulas.option_type = "CALL"
                     /\ formulas.spot_price > formulas.strike_price
                  THEN Scale
                ELSE IF formulas.option_type = "PUT"
                     /\ formulas.spot_price < formulas.strike_price
                  THEN -Scale
                ELSE 0)

\* a put past expiry and in the money is priced at its intrinsic value with
\* a delta of -1
C11_PutPastExpiry ==
  /\ formulas_called_directly
  /\ formulas.time_to_expiry < 0
  /\ formulas.option_type = "PUT"
  /\ formulas.strike_price > formulas.spot_price
  /\ formulas.volatility > 0
  /\ formulas.price = Return(formulas.strike_price - formulas.spot_price)
  /\ formulas.delta = Return(-Scale)

\* C12: none of the six formulas raises when time_to_expiry is zero or
\* negative, whatever the volatility and the strike are, zero included;
\* analyze_option does not raise in its formulas for an expired contract.
C12_NoExceptionAtOrPastExpiry ==
  /\ (formulas_called_directly /\ formulas.time_to_expiry <= 0) =>
       /\ formulas.price.kind = "return"
       /\ formulas.delta.kind = "return"
       /\ formulas.gamma.kind = "return"
       /\ formulas.theta.kind = "return"
       /\ formulas.vega.kind = "return"
       /\ formulas.rho.kind = "return"
  /\ (pc = "done" /\ analyze_calls = 1 /\ time_to_expiry <= 0
        /\ formula_calls # << >>) => analysis.kind = "return"

\* the formulas returned at a time of zero with a zero volatility and a zero
\* strike
C12_ZeroVolatilityZeroStrike ==
  /\ formulas_called_directly
  /\ formulas.time_to_expiry = 0
  /\ formulas.volatility = 0
  /\ formulas.strike_price = 0
  /\ formulas.gamma.kind = "return"
  /\ formulas.rho.kind = "return"

round_trip_ended ==
  /\ pc = "done"
  /\ op = "calculate_implied_volatility"
  /\ formulas # NoFormulas

\* C14: for a volatility s0 in [0.01, 3.0], a positive strike and
\* time_to_expiry > 0, calculate_implied_volatility on the price of s0, all
\* other arguments the same, returns a volatility, not None, that differs
\* from s0 by less than tolerance.
C14_RoundTripRecovers ==
  round_trip_ended =>
    /\ iv_outcome.kind = "return"
    /\ iv_outcome.value # None
    /\ Abs(iv_outcome.value[1] - formulas.volatility) < solver.tolerance

\* ------------------------------------------------------------------------
\* Dependence of analyze_option and analyze_trade_opportunity on the clock
\* ------------------------------------------------------------------------

\* analyze_option has been entered by a call that has ended
analysis_ended == pc = "done" /\ analyze_calls = 1

\* the time to expiry the same call computes when it is made at clock
\* reading 0
reference_time ==
  time_to_expiration(contract.expiration_date,
                     current_date(market_data.timestamp, 0))

\* C15: analyze_option and analyze_trade_opportunity are functions of
\* their inputs alone: whenever the call is made, the time to expiry used
\* for pricing is the one the same call made at clock reading 0 uses, the
\* analysis is the one that call returns (compared where the volatility is
\* resolved without the solver), and the time to expiry
\* analyze_trade_opportunity compares with min_time_to_expiry is the one
\* analyze_option priced with.
C15_PureFunctionOfInputs ==
  (analysis_ended /\ well_formed_contract) =>
    /\ time_to_expiry = reference_time
    /\ ~runs_solver(contract, volatility_arg) =>
         analysis = analyze_option(contract, market_data, reference_time,
                                   volatility_arg, Return(None))
    /\ op = "analyze_trade_opportunity" =>
         expiry_check_time = time_to_expiry

\* ------------------------------------------------------------------------
\* The solver's iterate
\* ------------------------------------------------------------------------

\* C16: in calculate_implied_volatility the volatility is 0.30 at the first
\* evaluation and between 0.001 and 5.0 at every later one, so every
\* evaluation of the price and the vega uses a strictly positive volatility,
\* and a volatility the solver returns lies between 0.001 and 5.0.
C16_IterateWithinBounds ==
  (solver_called /\ pc \in {"iv_loop", "done"}) =>
    /\ solver.i = 0 => solver.volatility = InitialGuess
    /\ solver.i > 0 =>
         /\ solver.volatility >= VolatilityFloor
         /\ solver.volatility <= VolatilityCap
    /\ solver.volatility > 0
    /\ (iv_outcome.kind = "return" /\ iv_outcome.value # None) =>
         /\ iv_outcome.value[1] >= VolatilityFloor
         /\ iv_outcome.value[1] <= VolatilityCap

\* the loop about to evaluate the price and the vega at the lower bound, to
\* which the clamp has raised the estimate
C16_EvaluationAtFloor ==
  /\ solver_called
  /\ pc = "iv_loop"
  /\ solver.i > 0
  /\ loop_continues(solver)
  /\ solver.volatility = VolatilityFloor

\* ------------------------------------------------------------------------
\* Signals of analyze_trade_opportunity without a volatility override
\* ------------------------------------------------------------------------

\* C17: analyze_trade_opportunity called without a volatility override on a
\* contract with a market price, with edge_threshold > 0 and
\* edge_threshold * market_price >= 1e-6 (or market_price <= 0), never
\* returns BUY or SELL: the fair value of a successful analysis is within
\* 1e-6 of the market price its volatility was solved from, and the signal
\* is HOLD or AVOID.
C17_NoTradeWithoutOverride ==
  (/\ pc = "done"
   /\ op = "analyze_trade_opportunity"
   /\ volatility_arg = None
   /\ contract.current_price # None
   /\ self.edge_threshold > 0
   /\ \/ contract.current_price[1] <= 0
      \/ FMul(self.edge_threshold, contract.current_price[1])
           >= DefaultTolerance) =>
    /\ outcome.kind = "return"
    /\ outcome.value.action \in {"HOLD", "AVOID"}
    /\ analysis.kind = "return" =>
         /\ analysis.value.implied_volatility = iv_outcome.value
         /\ Abs(outcome.value.fair_value - contract.current_price[1])
              < DefaultTolerance

\* a market price whose volatility the solver found in several passes, and
\* the signal HOLD with enough time left
C17_SolvedPriceHeld ==
  /\ pc = "done"
  /\ op = "analyze_trade_opportunity"
  /\ volatility_arg = None
  /\ contract.current_price # None
  /\ contract.current_price[1] > 0
  /\ self.edge_threshold > 0
  /\ evaluations > 1
  /\ analysis.kind = "return"
  /\ expiry_check_time >= self.min_time_to_expiry
  /\ outcome.kind = "return"
  /\ outcome.value.action = "HOLD"
====
